---- MODULE Spec2Model ----
(***************************************************************************)
(* Model of src/agent-orchestration/src/index.js: WorkflowEngine,          *)
(* TaskQueue and AgentPool.                                                *)
(*                                                                         *)
(* JavaScript runs each synchronous section to completion; the only places *)
(* where another callback can run are the awaits.  The model has one       *)
(* action per synchronous step and uses pc to disable every other callback *)
(* while execute() is inside a synchronous section.                        *)
(*                                                                         *)
(* Work functions are opaque: when called, a work function either throws   *)
(* synchronously or returns a value/promise that is awaited and later      *)
(* fulfils or rejects.  Task names are the numbers 1..NumNames.            *)
(*                                                                         *)
(* Spec is the engine used as the repository uses it (README quick start,  *)
(* examples/workflow.js): tasks and dependencies are declared in any       *)
(* order, then execute() is called once.  QueueSpec and PoolSpec are the   *)
(* queue and the pool on their own.                                        *)
(***************************************************************************)
EXTENDS Integers, Sequences, FiniteSets, TLC

\* ---------------------------------------------------------------- bounds
NumNames == 3
MaxDeps == 2
MaxPriority == 5
MaxEnqueues == 5
MaxSizeBound == 2
\* the longest available array a release() of a worker not in use may build
MaxAvailable == 3
\* the number of execute() calls on one engine
MaxRuns == 2

Names == 1..NumNames
\* the arrays a caller can pass to dependsOn
DepLists == UNION {[1..k -> Names] : k \in 0..MaxDeps}
\* "no task": the value of rejectedBy and error while nothing was rejected
None == NumNames + 1

VARIABLES
    tasks,         \* this.tasks: name -> status of the registered tasks
    taskOrder,     \* insertion order of the keys of this.tasks
    dependencies,  \* this.dependencies: name -> array of names
    results,       \* this.results: name -> result
    state,         \* this.state
    pc,            \* position of the execute() call
    completed,     \* execute(): const completed
    inProgress,    \* execute(): const inProgress
    runnable,      \* execute(): const runnable of the current iteration
    idx,           \* position of runnable.map(runTask) in runnable
    promises,      \* the promises runnable.map(runTask) returned
    rejectedBy,    \* the task whose rejection settled Promise.all
    error,         \* the error execute()'s catch block caught (the failing task)
    context,       \* execute(context): the dependencies field of the argument
    args,          \* the arguments each called work function received
    calls,         \* how many times each task's work function was called
    runs,          \* how many times execute() was called
    emitted,       \* how many times this.emit was called, by event and task
    listeners,     \* the events a listener is subscribed to with on()
    rejection,     \* the error the promise of execute() rejected with
    queue,         \* TaskQueue: this.queue, entries {priority, id}
    nextId,        \* TaskQueue: number of the next uuid
    lastDequeued,  \* TaskQueue: what the last dequeue() returned
    dequeuedRun,   \* TaskQueue: the entries dequeued since the last enqueue
    returned,      \* TaskQueue: how often dequeue() returned each entry
    observed,      \* TaskQueue: what peek(), size() or isEmpty() returned, if
                   \* one of them was the last call
    agents,        \* AgentPool: this.agents
    inUse,         \* AgentPool: this.inUse
    created,       \* AgentPool: number of agents _createAgent has made
    cpc,           \* AgentPool: position of each caller
    held           \* AgentPool: the agents acquire() returned to each caller

queueVars == <<queue, nextId, lastDequeued, dequeuedRun, returned, observed>>
poolVars == <<agents, inUse, created, cpc, held>>

vars == <<tasks, taskOrder, dependencies, results, state, pc, completed,
          inProgress, runnable, idx, promises, rejectedBy, error, context, args,
          calls, runs, emitted, listeners, rejection, queueVars, poolVars>>

engineVars == <<tasks, taskOrder, dependencies, results, state>>
runVars == <<pc, completed, inProgress, runnable, idx, promises, rejectedBy, error,
            context, args, calls, runs, emitted, listeners, rejection>>

\* ---------------------------------------------------------------- helpers
\* Map.prototype.set
MapSet(m, k, v) == [x \in (DOMAIN m) \cup {k} |-> IF x = k THEN v ELSE m[x]]

\* the result a task's work function produces (opaque, one per task)
ResultOf(name) == name

\* what the k-th call of a task's work function returns: the calls of a
\* function (or of the function a later addTask put in its place) need not
\* return the same value
ResultOfCall(name, k) == ResultOf(name) + (k - 1) * (NumNames + 2)

Range(s) == {s[i] : i \in DOMAIN s}

\* position of a task in the current runnable array
IndexOf(name) == CHOOSE i \in DOMAIN runnable : runnable[i] = name

\* ---------------------------------------------------------------- WorkflowEngine
\* execute(context = {}): the default argument, no dependencies field
EmptyContext == << >>

\* the ERR_UNHANDLED_ERROR that emit('error', payload) throws when no listener
\* is subscribed to 'error' and the payload is not an Error: no task's error
UnhandledError == NumNames + 3

\* on(event, listener), with a listener that returns
on(event) ==
    /\ pc = "idle"
    /\ listeners' = listeners \cup {event}
    /\ UNCHANGED <<tasks, taskOrder, dependencies, results, state, pc, completed,
                   inProgress, runnable, idx, promises, rejectedBy, error, context,
                   args, calls, runs, emitted, rejection>>

\* what Map.prototype.get returns for a missing key
NoResult == None

EngineInit ==
    /\ tasks = << >>
    /\ taskOrder = << >>
    /\ dependencies = << >>
    /\ results = << >>
    /\ state = "idle"
    /\ pc = "idle"
    /\ completed = {}
    /\ inProgress = {}
    /\ runnable = << >>
    /\ idx = 1
    /\ promises = << >>
    /\ rejectedBy = None
    /\ error = None
    /\ context = EmptyContext
    /\ args = << >>
    /\ calls = << >>
    /\ runs = 0
    /\ emitted = [start |-> 0, complete |-> 0, error |-> 0,
                  taskStart |-> [n \in Names |-> 0],
                  taskComplete |-> [n \in Names |-> 0],
                  taskError |-> [n \in Names |-> 0]]
    /\ listeners = {}
    /\ rejection = None

\* the caller is still declaring the graph: execute() was not called yet
Building == pc = "idle"

\* addTask(name, fn)
addTask(name) ==
    /\ Building
    /\ tasks' = MapSet(tasks, name, "pending")
    /\ taskOrder' = IF name \in DOMAIN tasks THEN taskOrder ELSE Append(taskOrder, name)
    /\ dependencies' = MapSet(dependencies, name, << >>)
    /\ UNCHANGED <<results, state, runVars>>

\* mutant of dependsOn: the new names are added to the recorded ones
dependsOnMerges(task, deps) ==
    /\ Building
    /\ dependencies' =
          MapSet(dependencies, task,
                 IF task \in DOMAIN dependencies
                 THEN dependencies[task]
                        \o SelectSeq(deps, LAMBDA d : d \notin Range(dependencies[task]))
                 ELSE deps)
    /\ UNCHANGED <<tasks, taskOrder, results, state, runVars>>

\* dependsOn(task, deps)
dependsOn(task, deps) ==
    /\ Building
    /\ dependencies' = MapSet(dependencies, task, deps)
    /\ UNCHANGED <<tasks, taskOrder, results, state, runVars>>

\* mutant of canRun: deps.some instead of deps.every
canRunSome(task, done) ==
    LET deps == dependencies[task]
    IN  deps = << >> \/ \E i \in DOMAIN deps : deps[i] \in done

\* canRun(task), with the set the closure reads
canRun(task, done) ==
    LET deps == dependencies[task]
    IN  \A i \in DOMAIN deps : deps[i] \in done

\* the filter of lines 71-76, in the order of this.tasks.keys()
Runnable(done, busy) ==
    SelectSeq(taskOrder, LAMBDA task : task \notin done /\ task \notin busy /\ canRun(task, done))

\* mutant of the while condition: the loop is left one task early
LoopConditionEarly(done, busy) ==
    Cardinality(done) + Cardinality(busy) + 1 < Cardinality(DOMAIN tasks)

\* the while condition of line 70
LoopCondition(done, busy) ==
    Cardinality(done) + Cardinality(busy) < Cardinality(DOMAIN tasks)

\* execute(ctx): lines 33-37, up to the first test of the while condition
executeCall(ctx) ==
    /\ Building
    /\ state' = "running"
    /\ context' = ctx
    /\ completed' = {}
    /\ inProgress' = {}
    /\ pc' = "loop"
    /\ runs' = runs + 1
    /\ UNCHANGED <<tasks, taskOrder, dependencies, results, runnable, idx,
                   promises, rejectedBy, error, args, calls>>
    /\ emitted' = [emitted EXCEPT !.start = @ + 1]
    /\ UNCHANGED <<listeners, rejection>>

\* execute() as examples/workflow.js calls it
execute == executeCall(EmptyContext)

\* the argument of execute() in the README's quick start: a dependencies field
\* that names, for every task but the first added, the task added before it
ReadmeDependencies ==
    [n \in {taskOrder[i] : i \in 2..Len(taskOrder)} |->
        <<taskOrder[(CHOOSE i \in 2..Len(taskOrder) : taskOrder[i] = n) - 1]>>]

\* execute({dependencies: {...}}) as the README's quick start calls it
executeReadme ==
    /\ Len(taskOrder) >= 2
    /\ executeCall(ReadmeDependencies)

\* one test of the while condition: either the next runnable array is
\* computed (lines 70-76) or the loop is left and execute() returns (81-83)
LoopTest ==
    /\ pc = "loop"
    /\ IF LoopCondition(completed, inProgress)
       THEN LET r == Runnable(completed, inProgress)
            IN  /\ runnable' = r
                /\ idx' = 1
                /\ promises' = [i \in DOMAIN r |-> "unstarted"]
                /\ rejectedBy' = None
                /\ pc' = IF r = << >> THEN "await" ELSE "map"
                /\ UNCHANGED state
       ELSE /\ state' = "completed"
            /\ pc' = "returned"
            /\ UNCHANGED <<runnable, idx, promises, rejectedBy>>
    /\ UNCHANGED <<tasks, taskOrder, dependencies, results, completed, inProgress, error,
                   context, args, calls, runs>>
    /\ emitted' = IF LoopCondition(completed, inProgress)
                  THEN emitted
                  ELSE [emitted EXCEPT !.complete = @ + 1]
    /\ UNCHANGED <<listeners, rejection>>

\* where runnable.map(runTask) goes after the call for runnable[idx]
AfterCall == IF idx = Len(runnable) THEN "await" ELSE "map"

\* runTask(name), lines 45-50: the status test and the move to running
runTaskEnter ==
    /\ pc = "map"
    /\ LET name == runnable[idx]
       IN  IF name \notin DOMAIN tasks \/ tasks[name] # "pending"
           THEN /\ promises' = [promises EXCEPT ![idx] = "fulfilled"]
                /\ idx' = idx + 1
                /\ pc' = AfterCall
                /\ UNCHANGED <<tasks, inProgress>>
           ELSE /\ tasks' = [tasks EXCEPT ![name] = "running"]
                /\ inProgress' = inProgress \cup {name}
                /\ pc' = "call"
                /\ UNCHANGED <<promises, idx>>
    /\ UNCHANGED <<taskOrder, dependencies, results, state, completed, runnable,
                   rejectedBy, error, context, args, calls, runs>>
    /\ emitted' = IF runnable[idx] \notin DOMAIN tasks \/ tasks[runnable[idx]] # "pending"
                  THEN emitted
                  ELSE [emitted EXCEPT !.taskStart[runnable[idx]] = @ + 1]
    /\ UNCHANGED <<listeners, rejection>>

\* mutant of lines 53-54: the inputs in reverse order
inputsReversed(name) ==
    LET deps == dependencies[name]
    IN  [i \in DOMAIN deps |->
            LET dep == deps[Len(deps) + 1 - i]
            IN  IF dep \in DOMAIN results THEN results[dep] ELSE NoResult]

\* lines 53-54: deps.map(dep => this.results.get(dep))
inputs(name) ==
    LET deps == dependencies[name]
    IN  [i \in DOMAIN deps |->
            IF deps[i] \in DOMAIN results THEN results[deps[i]] ELSE NoResult]

\* line 55: the call task.fn(...inputs, context)
fnCalled(name) ==
    /\ args' = MapSet(args, name, Append(inputs(name), context))
    /\ calls' = MapSet(calls, name, IF name \in DOMAIN calls THEN calls[name] + 1 ELSE 1)
    /\ UNCHANGED runs

\* line 55: task.fn(...) returns a value or a promise, runTask awaits it
fnReturns ==
    /\ pc = "call"
    /\ fnCalled(runnable[idx])
    /\ promises' = [promises EXCEPT ![idx] = "pending"]
    /\ idx' = idx + 1
    /\ pc' = AfterCall
    /\ UNCHANGED <<engineVars, completed, inProgress, runnable, rejectedBy, error, context>>
    /\ UNCHANGED <<emitted, listeners, rejection>>

\* mutant of line 61: the catch block puts the task back to pending
runTaskCatchRetries(name) ==
    /\ tasks' = [tasks EXCEPT ![name] = "pending"]
    /\ inProgress' = inProgress \ {name}
    /\ promises' = [promises EXCEPT ![IndexOf(name)] = "rejected"]
    /\ rejectedBy' = IF rejectedBy = None THEN name ELSE rejectedBy
    /\ emitted' = [emitted EXCEPT !.taskError[name] = @ + 1]

\* the catch and finally blocks of runTask, lines 60-66
runTaskCatch(name) ==
    /\ tasks' = [tasks EXCEPT ![name] = "failed"]
    /\ inProgress' = inProgress \ {name}
    /\ promises' = [promises EXCEPT ![IndexOf(name)] = "rejected"]
    /\ rejectedBy' = IF rejectedBy = None THEN name ELSE rejectedBy
    /\ emitted' = [emitted EXCEPT !.taskError[name] = @ + 1]

\* line 55: task.fn(...) throws synchronously
fnThrows ==
    /\ pc = "call"
    /\ fnCalled(runnable[idx])
    /\ runTaskCatch(runnable[idx])
    /\ idx' = idx + 1
    /\ pc' = AfterCall
    /\ UNCHANGED <<taskOrder, dependencies, results, state, completed, runnable, error,
                   context>>
    /\ UNCHANGED <<listeners, rejection>>

\* a running task whose work function's promise is awaited
Awaited(name) ==
    /\ pc \in {"await", "thrown"}
    /\ name \in DOMAIN tasks
    /\ tasks[name] = "running"
    /\ name \in Range(runnable)
    /\ promises[IndexOf(name)] = "pending"

\* lines 56-59 and 65: the awaited promise fulfilled
taskFulfilled(name) ==
    /\ Awaited(name)
    /\ results' = MapSet(results, name, ResultOfCall(name, calls[name]))
    /\ tasks' = [tasks EXCEPT ![name] = "completed"]
    /\ completed' = completed \cup {name}
    /\ inProgress' = inProgress \ {name}
    /\ promises' = [promises EXCEPT ![IndexOf(name)] = "fulfilled"]
    /\ UNCHANGED <<taskOrder, dependencies, state, pc, runnable, idx, rejectedBy, error,
                   context, args, calls, runs>>
    /\ emitted' = [emitted EXCEPT !.taskComplete[name] = @ + 1]
    /\ UNCHANGED <<listeners, rejection>>

\* lines 60-66: the awaited promise rejected
taskRejected(name) ==
    /\ Awaited(name)
    /\ runTaskCatch(name)
    /\ UNCHANGED <<taskOrder, dependencies, results, state, pc, completed, runnable,
                   idx, error, context, args, calls, runs>>
    /\ UNCHANGED <<listeners, rejection>>

\* mutant of line 78: Promise.race in place of Promise.all
awaitResumesOnFirst ==
    /\ pc = "await"
    /\ \E i \in DOMAIN promises : promises[i] = "fulfilled"
    /\ pc' = "loop"
    /\ UNCHANGED <<engineVars, completed, inProgress, runnable, idx, promises,
                   rejectedBy, error, context, args, calls, runs>>
    /\ UNCHANGED <<emitted, listeners, rejection>>

\* line 78: Promise.all fulfilled, the loop goes on
awaitResumes ==
    /\ pc = "await"
    /\ \A i \in DOMAIN promises : promises[i] = "fulfilled"
    /\ pc' = "loop"
    /\ UNCHANGED <<engineVars, completed, inProgress, runnable, idx, promises,
                   rejectedBy, error, context, args, calls, runs>>
    /\ UNCHANGED <<emitted, listeners, rejection>>

\* mutant of executeCatch: the run state is left as it was
executeCatchKeepsState ==
    /\ pc = "await"
    /\ rejectedBy # None
    /\ error' = rejectedBy
    /\ pc' = "thrown"
    /\ UNCHANGED <<tasks, taskOrder, dependencies, results, state, completed,
                   inProgress, runnable, idx, promises, rejectedBy, context, args, calls, runs>>
    /\ emitted' = [emitted EXCEPT !.error = @ + 1]
    /\ rejection' = IF "error" \in listeners THEN rejectedBy ELSE UnhandledError
    /\ UNCHANGED listeners

\* lines 84-88: Promise.all rejected with the first rejection
executeCatch ==
    /\ pc = "await"
    /\ rejectedBy # None
    /\ state' = "failed"
    /\ error' = rejectedBy
    /\ pc' = "thrown"
    /\ UNCHANGED <<tasks, taskOrder, dependencies, results, completed, inProgress,
                   runnable, idx, promises, rejectedBy, context, args, calls, runs>>
    /\ emitted' = [emitted EXCEPT !.error = @ + 1]
    /\ rejection' = IF "error" \in listeners THEN rejectedBy ELSE UnhandledError
    /\ UNCHANGED listeners

\* ------------------------------------------------- the engine used again
\* the execute() call before has returned or rejected and no work function
\* of it is still awaited
BetweenRuns == pc \in {"returned", "thrown"} /\ \A n \in DOMAIN tasks : tasks[n] # "running"

\* addTask(name, fn) after a run
addTaskAgain(name) ==
    /\ BetweenRuns
    /\ tasks' = MapSet(tasks, name, "pending")
    /\ taskOrder' = IF name \in DOMAIN tasks THEN taskOrder ELSE Append(taskOrder, name)
    /\ dependencies' = MapSet(dependencies, name, << >>)
    /\ UNCHANGED <<results, state, runVars>>

\* execute() after a run: lines 33-37 with the engine's maps as the run
\* before left them
executeAgain ==
    /\ BetweenRuns
    /\ runs < MaxRuns
    /\ state' = "running"
    /\ context' = EmptyContext
    /\ completed' = {}
    /\ inProgress' = {}
    /\ pc' = "loop"
    /\ runs' = runs + 1
    /\ UNCHANGED <<tasks, taskOrder, dependencies, results, runnable, idx,
                   promises, rejectedBy, error, args, calls>>
    /\ emitted' = [emitted EXCEPT !.start = @ + 1]
    /\ UNCHANGED <<listeners, rejection>>

\* ------------------------------------------------- listeners that throw
\* EventEmitter.emit calls the listeners synchronously: what a listener throws
\* leaves emit() at the line of the call.

\* the error a listener throws: no task's error
ListenerError == NumNames + 2

\* line 34: emit('start') throws before the try block is entered
startListenerThrows ==
    /\ Building
    /\ state' = "running"
    /\ context' = EmptyContext
    /\ pc' = "thrown"
    /\ runs' = runs + 1
    /\ UNCHANGED <<tasks, taskOrder, dependencies, results, completed, inProgress,
                   runnable, idx, promises, rejectedBy, error, args, calls>>
    /\ emitted' = [emitted EXCEPT !.start = @ + 1]
    /\ rejection' = ListenerError
    /\ UNCHANGED listeners

\* line 50: emit('task:start') throws outside runTask's try block
taskStartListenerThrows ==
    /\ pc = "map"
    /\ LET name == runnable[idx]
       IN  /\ name \in DOMAIN tasks
           /\ tasks[name] = "pending"
           /\ tasks' = [tasks EXCEPT ![name] = "running"]
           /\ inProgress' = inProgress \cup {name}
    /\ promises' = [promises EXCEPT ![idx] = "rejected"]
    /\ rejectedBy' = IF rejectedBy = None THEN ListenerError ELSE rejectedBy
    /\ idx' = idx + 1
    /\ pc' = AfterCall
    /\ UNCHANGED <<taskOrder, dependencies, results, state, completed, runnable,
                   error, context, args, calls, runs>>
    /\ emitted' = [emitted EXCEPT !.taskStart[runnable[idx]] = @ + 1]
    /\ UNCHANGED <<listeners, rejection>>

\* lines 56-66: emit('task:complete') throws inside the try block, after the
\* result is stored and the task is marked completed
taskCompleteListenerThrows(name) ==
    /\ Awaited(name)
    /\ results' = MapSet(results, name, ResultOfCall(name, calls[name]))
    /\ completed' = completed \cup {name}
    /\ tasks' = [tasks EXCEPT ![name] = "failed"]
    /\ inProgress' = inProgress \ {name}
    /\ promises' = [promises EXCEPT ![IndexOf(name)] = "rejected"]
    /\ rejectedBy' = IF rejectedBy = None THEN ListenerError ELSE rejectedBy
    /\ UNCHANGED <<taskOrder, dependencies, state, pc, runnable, idx, error,
                   context, args, calls, runs>>
    /\ emitted' = [emitted EXCEPT !.taskComplete[name] = @ + 1,
                                  !.taskError[name] = @ + 1]
    /\ UNCHANGED <<listeners, rejection>>

\* lines 60-66: the awaited promise rejected and emit('task:error') throws
\* in the catch block
taskErrorListenerThrows(name) ==
    /\ Awaited(name)
    /\ tasks' = [tasks EXCEPT ![name] = "failed"]
    /\ inProgress' = inProgress \ {name}
    /\ promises' = [promises EXCEPT ![IndexOf(name)] = "rejected"]
    /\ rejectedBy' = IF rejectedBy = None THEN ListenerError ELSE rejectedBy
    /\ UNCHANGED <<taskOrder, dependencies, results, state, pc, completed, runnable,
                   idx, error, context, args, calls, runs>>
    /\ emitted' = [emitted EXCEPT !.taskError[name] = @ + 1]
    /\ UNCHANGED <<listeners, rejection>>

\* lines 81-88: emit('complete') throws inside execute()'s try block
completeListenerThrows ==
    /\ pc = "loop"
    /\ ~LoopCondition(completed, inProgress)
    /\ state' = "failed"
    /\ error' = ListenerError
    /\ pc' = "thrown"
    /\ UNCHANGED <<tasks, taskOrder, dependencies, results, completed, inProgress,
                   runnable, idx, promises, rejectedBy, context, args, calls, runs>>
    /\ emitted' = [emitted EXCEPT !.complete = @ + 1, !.error = @ + 1]
    /\ rejection' = IF "error" \in listeners THEN ListenerError ELSE UnhandledError
    /\ UNCHANGED listeners

\* ---------------------------------------------------------------- graph shapes
\* the registered tasks a registered task declares as dependencies
DirectDeps(n) == Range(dependencies[n]) \cap DOMAIN tasks

RECURSIVE ReachIn(_, _)
\* the registered tasks reachable from n along at most k dependency edges
ReachIn(n, k) ==
    IF k = 0 THEN {}
    ELSE DirectDeps(n) \cup UNION {ReachIn(d, k - 1) : d \in DirectDeps(n)}

\* tasks on a dependency cycle (a self-dependency included)
OnCycle == {n \in DOMAIN tasks : n \in ReachIn(n, NumNames)}
HasCycle == OnCycle # {}

\* tasks that declare a dependency that was never registered
Unresolved == {n \in DOMAIN tasks : \E d \in Range(dependencies[n]) : d \notin DOMAIN tasks}
HasUnresolved == Unresolved # {}

Registered == DOMAIN tasks
WithStatus(s) == {n \in Registered : tasks[n] = s}
SomeFailed == WithStatus("failed") # {}

\* ---------------------------------------------------------------- TaskQueue
Priorities == 1..MaxPriority
\* mutant of Undefined: the first entry's fields
UndefinedAsEntry == [priority |-> 1, id |-> 1]

\* what shift() returns on an empty array
Undefined == [priority |-> 0, id |-> 0]

\* no observer was called since the last enqueue or dequeue
NotObserved == [op |-> "none", entry |-> Undefined, count |-> 0, flag |-> FALSE]

QueueInit ==
    /\ queue = << >>
    /\ nextId = 1
    /\ lastDequeued = Undefined
    /\ dequeuedRun = << >>
    /\ returned = [id \in 1..MaxEnqueues |-> 0]
    /\ observed = NotObserved

\* mutant of the comparator: ascending priorities
compareAscending(a, b) == a.priority - b.priority

\* the comparator of line 111
compare(a, b) == b.priority - a.priority

\* mutant of the sort: e goes in front of the entries it compares equal to
InsertSortedBeforeTies(s, e) ==
    LET k == Cardinality({i \in DOMAIN s : compare(s[i], e) < 0})
    IN  SubSeq(s, 1, k) \o <<e>> \o SubSeq(s, k + 1, Len(s))

\* insertion of e into an array sorted under compare, behind every entry
\* that does not compare greater than e: one step of a stable sort
InsertSorted(s, e) ==
    LET k == Cardinality({i \in DOMAIN s : compare(s[i], e) <= 0})
    IN  SubSeq(s, 1, k) \o <<e>> \o SubSeq(s, k + 1, Len(s))

RECURSIVE sort(_)
\* Array.prototype.sort with the comparator of line 111 (a stable sort)
sort(s) ==
    IF s = << >> THEN << >>
    ELSE InsertSorted(sort(SubSeq(s, 1, Len(s) - 1)), s[Len(s)])

\* enqueue(task, priority): push, then sort
enqueue(priority) ==
    /\ nextId <= MaxEnqueues
    /\ queue' = sort(Append(queue, [priority |-> priority, id |-> nextId]))
    /\ nextId' = nextId + 1
    /\ dequeuedRun' = << >>
    /\ observed' = NotObserved
    /\ UNCHANGED <<lastDequeued, returned>>

\* mutant of dequeue: this.queue[0] in place of this.queue.shift()
dequeueKeepsHead ==
    /\ observed' = NotObserved
    /\ IF queue = << >>
       THEN /\ lastDequeued' = Undefined
            /\ UNCHANGED <<queue, nextId, dequeuedRun, returned>>
       ELSE /\ lastDequeued' = Head(queue)
            /\ dequeuedRun' = Append(dequeuedRun, Head(queue))
            /\ returned' = [returned EXCEPT ![Head(queue).id] = @ + 1]
            /\ UNCHANGED <<queue, nextId>>

\* dequeue(): this.queue.shift()
dequeue ==
    /\ observed' = NotObserved
    /\ IF queue = << >>
       THEN /\ lastDequeued' = Undefined
            /\ UNCHANGED <<queue, nextId, dequeuedRun, returned>>
       ELSE /\ lastDequeued' = Head(queue)
            /\ queue' = Tail(queue)
            /\ dequeuedRun' = Append(dequeuedRun, Head(queue))
            /\ returned' = [returned EXCEPT ![Head(queue).id] = @ + 1]
            /\ UNCHANGED nextId

\* peek(): this.queue[0]
peek == IF Len(queue) = 0 THEN Undefined ELSE queue[1]

size == Len(queue)

\* mutant of isEmpty: length below two
isEmptyBelowTwo == Len(queue) <= 1

isEmpty == Len(queue) = 0

\* mutant of the observers: peek() written with shift()
observeShifting(op) ==
    /\ observed' = [op |-> op,
                    entry |-> IF op = "peek" THEN peek ELSE Undefined,
                    count |-> IF op = "size" THEN size ELSE 0,
                    flag |-> IF op = "isEmpty" THEN isEmpty ELSE FALSE]
    /\ queue' = IF op = "peek" /\ Len(queue) > 0 THEN Tail(queue) ELSE queue
    /\ UNCHANGED <<nextId, lastDequeued, dequeuedRun, returned>>

\* a call of peek(), size() or isEmpty(): the value is returned, no field is
\* assigned
observe(op) ==
    /\ observed' = [op |-> op,
                    entry |-> IF op = "peek" THEN peek ELSE Undefined,
                    count |-> IF op = "size" THEN size ELSE 0,
                    flag |-> IF op = "isEmpty" THEN isEmpty ELSE FALSE]
    /\ UNCHANGED <<queue, nextId, lastDequeued, dequeuedRun, returned>>

\* ---------------------------------------------------------------- AgentPool
\* constructor(maxSize)
maxSize == MaxSizeBound
\* one caller more than the pool has room for
Callers == 1..(maxSize + 1)

PoolInit ==
    /\ agents = << >>
    /\ inUse = {}
    /\ created = 0
    /\ cpc = [c \in Callers |-> "idle"]
    /\ held = [c \in Callers |-> {}]

\* mutant of line 152: the agent is read without being popped
WhileAndTakeKeeps(c, avail) ==
    IF Len(avail) = 0
    THEN /\ cpc' = [cpc EXCEPT ![c] = "waiting"]
         /\ agents' = avail
         /\ UNCHANGED <<inUse, held>>
    ELSE /\ agents' = avail
         /\ inUse' = inUse \cup {avail[Len(avail)]}
         /\ held' = [held EXCEPT ![c] = {avail[Len(avail)]}]
         /\ cpc' = [cpc EXCEPT ![c] = "holding"]

\* lines 148-154 from the test of the while condition on: the caller either
\* suspends on the 100 ms timer or pops an agent and returns it
WhileAndTake(c, avail) ==
    IF Len(avail) = 0
    THEN /\ cpc' = [cpc EXCEPT ![c] = "waiting"]
         /\ agents' = avail
         /\ UNCHANGED <<inUse, held>>
    ELSE /\ agents' = SubSeq(avail, 1, Len(avail) - 1)
         /\ inUse' = inUse \cup {avail[Len(avail)]}
         /\ held' = [held EXCEPT ![c] = {avail[Len(avail)]}]
         /\ cpc' = [cpc EXCEPT ![c] = "holding"]

\* mutant of the test of line 143: no capacity test
MayCreateAlways == Len(agents) = 0

\* the test of line 143
MayCreate == Len(agents) = 0 /\ Cardinality(inUse) < maxSize

\* acquire(), up to its first await
acquire(c) ==
    /\ cpc[c] = "idle"
    /\ IF MayCreate
       THEN /\ cpc' = [cpc EXCEPT ![c] = "creating"]
            /\ UNCHANGED <<agents, inUse, held>>
       ELSE WhileAndTake(c, agents)
    /\ UNCHANGED created

\* lines 144-154: _createAgent() resolved, the new agent is pushed
agentCreated(c) ==
    /\ cpc[c] = "creating"
    /\ created' = created + 1
    /\ WhileAndTake(c, Append(agents, created + 1))

\* mutant of line 148: the loop waits until two agents are available
timerTakesSecond(c) ==
    /\ cpc[c] = "waiting"
    /\ Len(agents) > 1
    /\ WhileAndTake(c, agents)
    /\ UNCHANGED created

\* lines 148-154: the timer fired and an agent is available
timerTakes(c) ==
    /\ cpc[c] = "waiting"
    /\ Len(agents) > 0
    /\ WhileAndTake(c, agents)
    /\ UNCHANGED created

\* release(agent) by the caller that holds it
release(c) ==
    /\ cpc[c] = "holding"
    /\ \E agent \in held[c] :
          /\ inUse' = inUse \ {agent}
          /\ agents' = Append(agents, agent)
    /\ held' = [held EXCEPT ![c] = {}]
    /\ cpc' = [cpc EXCEPT ![c] = "idle"]
    /\ UNCHANGED created

\* release(agent) of an agent this pool created that is not in inUse: it was
\* released before. inUse.delete finds nothing, the push happens all the same.
releaseNotAcquired(agent) ==
    /\ agent \in 1..created
    /\ agent \notin inUse
    /\ Len(agents) < MaxAvailable
    /\ inUse' = inUse \ {agent}
    /\ agents' = Append(agents, agent)
    /\ UNCHANGED <<created, cpc, held>>

\* stats()
stats ==
    [total |-> Len(agents) + Cardinality(inUse),
     available |-> Len(agents),
     inUse |-> Cardinality(inUse)]

Init == EngineInit /\ QueueInit /\ PoolInit

Next ==
    \/ (\E name \in Names : addTask(name)) /\ UNCHANGED <<queueVars, poolVars>>
    \/ (\E task \in Names, deps \in DepLists : dependsOn(task, deps))
          /\ UNCHANGED <<queueVars, poolVars>>
    \/ execute /\ UNCHANGED <<queueVars, poolVars>>
    \/ LoopTest /\ UNCHANGED <<queueVars, poolVars>>
    \/ runTaskEnter /\ UNCHANGED <<queueVars, poolVars>>
    \/ fnReturns /\ UNCHANGED <<queueVars, poolVars>>
    \/ fnThrows /\ UNCHANGED <<queueVars, poolVars>>
    \/ (\E name \in Names : taskFulfilled(name)) /\ UNCHANGED <<queueVars, poolVars>>
    \/ (\E name \in Names : taskRejected(name)) /\ UNCHANGED <<queueVars, poolVars>>
    \/ awaitResumes /\ UNCHANGED <<queueVars, poolVars>>
    \/ executeCatch /\ UNCHANGED <<queueVars, poolVars>>

Spec == Init /\ [][Next]_vars

QueueNext ==
    \/ (\E priority \in Priorities : enqueue(priority))
          /\ UNCHANGED <<engineVars, runVars, poolVars>>
    \/ dequeue /\ UNCHANGED <<engineVars, runVars, poolVars>>

QueueSpec == Init /\ [][QueueNext]_vars

\* the observers of the queue
Observers == {"peek", "size", "isEmpty"}

\* the queue with calls of its observers between the other calls
ObserverNext ==
    \/ QueueNext
    \/ (\E op \in Observers : observe(op)) /\ UNCHANGED <<engineVars, runVars, poolVars>>

ObserverSpec == Init /\ [][ObserverNext]_vars

PoolNext ==
    \/ (\E c \in Callers : acquire(c)) /\ UNCHANGED <<engineVars, runVars, queueVars>>
    \/ (\E c \in Callers : agentCreated(c)) /\ UNCHANGED <<engineVars, runVars, queueVars>>
    \/ (\E c \in Callers : timerTakes(c)) /\ UNCHANGED <<engineVars, runVars, queueVars>>
    \/ (\E c \in Callers : release(c)) /\ UNCHANGED <<engineVars, runVars, queueVars>>

PoolSpec == Init /\ [][PoolNext]_vars

\* the pool with callers that also release workers they do not hold
PoolMisuseNext ==
    \/ PoolNext
    \/ (\E agent \in 1..(maxSize + 1) : releaseNotAcquired(agent))
          /\ UNCHANGED <<engineVars, runVars, queueVars>>

PoolMisuseSpec == Init /\ [][PoolMisuseNext]_vars

\* line 149: the 100 ms timer of every suspended acquire() keeps firing
PoolFairSpec ==
    PoolSpec /\ \A c \in Callers :
                   WF_vars(timerTakes(c) /\ UNCHANGED <<engineVars, runVars, queueVars>>)

\* the steps of a started run: the event loop runs every continuation that
\* is ready, and an awaited work function eventually settles
RunStep ==
    \/ LoopTest
    \/ runTaskEnter
    \/ fnReturns
    \/ fnThrows
    \/ \E name \in Names : taskFulfilled(name)
    \/ \E name \in Names : taskRejected(name)
    \/ awaitResumes
    \/ executeCatch

FairSpec == Spec /\ WF_vars(RunStep /\ UNCHANGED <<queueVars, poolVars>>)

\* line 55: the promise of every called work function settles
SettleFairSpec ==
    FairSpec /\ \A name \in Names :
                   WF_vars((taskFulfilled(name) \/ taskRejected(name))
                              /\ UNCHANGED <<queueVars, poolVars>>)

\* the engine with or without a listener subscribed to 'error'
SubscribedNext ==
    \/ Next
    \/ on("error") /\ UNCHANGED <<queueVars, poolVars>>

SubscribedSpec == Init /\ [][SubscribedNext]_vars

\* the engine with further addTask and execute() calls after a run
ReuseNext ==
    \/ Next
    \/ (\E name \in Names : addTaskAgain(name)) /\ UNCHANGED <<queueVars, poolVars>>
    \/ executeAgain /\ UNCHANGED <<queueVars, poolVars>>

ReuseSpec == Init /\ [][ReuseNext]_vars

ReuseFairSpec == ReuseSpec /\ WF_vars(RunStep /\ UNCHANGED <<queueVars, poolVars>>)

\* the README's quick start: addTask calls, no dependsOn, then
\* execute({dependencies: ...})
ReadmeNext ==
    \/ (\E name \in Names : addTask(name)) /\ UNCHANGED <<queueVars, poolVars>>
    \/ executeReadme /\ UNCHANGED <<queueVars, poolVars>>
    \/ LoopTest /\ UNCHANGED <<queueVars, poolVars>>
    \/ runTaskEnter /\ UNCHANGED <<queueVars, poolVars>>
    \/ fnReturns /\ UNCHANGED <<queueVars, poolVars>>
    \/ fnThrows /\ UNCHANGED <<queueVars, poolVars>>
    \/ (\E name \in Names : taskFulfilled(name)) /\ UNCHANGED <<queueVars, poolVars>>
    \/ (\E name \in Names : taskRejected(name)) /\ UNCHANGED <<queueVars, poolVars>>
    \/ awaitResumes /\ UNCHANGED <<queueVars, poolVars>>
    \/ executeCatch /\ UNCHANGED <<queueVars, poolVars>>

ReadmeSpec == Init /\ [][ReadmeNext]_vars

\* the engine with subscribed listeners that may throw
ListenerNext ==
    \/ Next
    \/ startListenerThrows /\ UNCHANGED <<queueVars, poolVars>>
    \/ taskStartListenerThrows /\ UNCHANGED <<queueVars, poolVars>>
    \/ (\E name \in Names : taskCompleteListenerThrows(name))
          /\ UNCHANGED <<queueVars, poolVars>>
    \/ (\E name \in Names : taskErrorListenerThrows(name))
          /\ UNCHANGED <<queueVars, poolVars>>
    \/ completeListenerThrows /\ UNCHANGED <<queueVars, poolVars>>

ListenerSpec == Init /\ [][ListenerNext]_vars

\* ---------------------------------------------------------------- properties

\* C1: a task moves from pending to running only when every declared
\* dependency is registered, has status completed and has its result stored.
C1_DependenciesFirst ==
    [][\A t \in Registered :
          (tasks[t] = "pending" /\ tasks'[t] = "running")
          => \A d \in Range(dependencies[t]) :
                /\ d \in Registered
                /\ tasks[d] = "completed"
                /\ d \in DOMAIN results]_vars

\* a task with two different dependencies was dispatched
C1_Witness ==
    \E t \in Registered :
        /\ tasks[t] = "running"
        /\ Len(dependencies[t]) = MaxDeps
        /\ dependencies[t][1] # dependencies[t][2]

GoodGraph == ~HasCycle /\ ~HasUnresolved
C2_Done ==
    /\ pc = "returned"
    /\ state = "completed"
    /\ \A n \in Registered : tasks[n] = "completed"
    /\ DOMAIN results = Registered

\* C2: on an acyclic graph whose dependencies are all registered, a started
\* run ends unless a work function fails, and it ends with every task
\* completed, the run state completed and one result per registered task.
C2_AcyclicCompletes == (pc = "loop" /\ GoodGraph) ~> (C2_Done \/ SomeFailed)

\* a run of NumNames tasks, one of them with MaxDeps dependencies, returned
C2_Witness ==
    /\ C2_Done
    /\ Cardinality(Registered) = NumNames
    /\ \E t \in Registered : Len(dependencies[t]) = MaxDeps

\* C3: the number of agents in use never exceeds maxSize.
C3_InUseBounded == stats.inUse <= maxSize

\* C4: a run on a graph with a dependency cycle ends by failing instead of
\* looping forever.
C4_CycleFails == (pc = "loop" /\ HasCycle /\ ~HasUnresolved) ~> (pc = "thrown")

\* C5: a run on a graph with a dependency that was never registered ends
\* with an error instead of hanging.
C5_UnresolvedFails == (pc = "loop" /\ HasUnresolved /\ ~HasCycle) ~> (pc = "thrown")

C6_Rejected ==
    pc = "thrown" =>
        /\ state = "failed"
        /\ error \in Registered
        /\ tasks[error] = "failed"
C6_NoRollback ==
    \A n \in Registered :
        /\ (pc = "thrown" /\ tasks[n] = "pending") => tasks'[n] = "pending"
        /\ tasks[n] = "completed" =>
              /\ tasks'[n] = "completed"
              /\ n \in DOMAIN results'
              /\ results'[n] = results[n]

\* C6: when a work function has failed, execute() rejects; once it has
\* rejected the run state is failed and the task whose error it caught is
\* failed; from then on every pending task stays pending, and a completed
\* task keeps its status and its stored result.
C6_FailureAborts ==
    /\ []C6_Rejected
    /\ [][C6_NoRollback]_vars
    /\ (SomeFailed ~> (pc = "thrown"))

\* execute() rejected with a completed, a failed and a never dispatched task
C6_Witness ==
    /\ pc = "thrown"
    /\ WithStatus("pending") # {}
    /\ WithStatus("completed") # {}
    /\ WithStatus("failed") # {}

PrioritiesIn(s) == {s[i].priority : i \in DOMAIN s}
Removed(s, e) == SelectSeq(s, LAMBDA x : x # e)
C7_DequeueTakesMax ==
    Len(queue') < Len(queue) =>
        /\ lastDequeued' \in Range(queue)
        /\ \A q \in PrioritiesIn(queue) : q <= lastDequeued'.priority
        /\ queue' = Removed(queue, lastDequeued')
C7_NonIncreasing ==
    \A i, j \in DOMAIN dequeuedRun :
        i < j => dequeuedRun[i].priority >= dequeuedRun[j].priority
\* the priorities of the example, by number of the enqueue call
ExamplePriorities == <<3, 1, 4, 1, 5>>
C7_Example ==
    (/\ Len(dequeuedRun) = Len(ExamplePriorities)
     /\ \A i \in DOMAIN dequeuedRun :
           /\ dequeuedRun[i].id \in DOMAIN ExamplePriorities
           /\ dequeuedRun[i].priority = ExamplePriorities[dequeuedRun[i].id])
    => [i \in DOMAIN dequeuedRun |-> dequeuedRun[i].priority] = <<5, 4, 3, 1, 1>>

\* C7: dequeue() on a non-empty queue removes and returns an entry of the
\* highest priority present; the entries dequeued since the last enqueue are
\* in non-increasing priority order; after enqueuing 3,1,4,1,5 five dequeues
\* return 5,4,3,1,1.
C7_HighestFirst ==
    /\ [](C7_NonIncreasing /\ C7_Example)
    /\ [][C7_DequeueTakesMax]_vars

\* 3,1,4,1,5 were enqueued in this order and then all dequeued
C7_Witness ==
    /\ Len(dequeuedRun) = Len(ExamplePriorities)
    /\ [i \in DOMAIN dequeuedRun |-> dequeuedRun[i].id] = <<5, 3, 1, 2, 4>>
    /\ [i \in DOMAIN dequeuedRun |-> dequeuedRun[i].priority] = <<5, 4, 3, 1, 1>>

\* C8: whenever a task has status failed, the run state is failed.
C8_FailedTaskFailedRun == SomeFailed => state = "failed"

C10_FailFast ==
    [][SomeFailed =>
          \A n \in Registered : tasks[n] = "pending" => tasks'[n] # "running"]_vars

\* C11: when execute() has rejected, no task has status running.
C11_NoneRunningAfterReject == pc = "thrown" => WithStatus("running") = {}

\* a release() step: a holder becomes idle
ReleaseStep == \E c \in Callers : cpc[c] = "holding" /\ cpc'[c] = "idle"

C12_Suspended(c) == cpc[c] = "waiting"

\* C12: a caller of acquire() that found nothing available and no room stays
\* suspended as long as no release() occurs: an agent becomes available only by
\* a release(), and a suspended caller resumes only by taking the last
\* available agent. Once an agent is available the suspended caller
\* eventually holds an agent, unless a competing acquire() took it.
C12_SuspendedUntilRelease ==
    /\ [][/\ (Len(agents) = 0 /\ Len(agents') > 0) => ReleaseStep
          /\ \A c \in Callers :
                (C12_Suspended(c) /\ ~C12_Suspended(c)') =>
                    /\ Len(agents) > 0
                    /\ cpc'[c] = "holding"
                    /\ held'[c] = {agents[Len(agents)]}
                    /\ held'[c] \subseteq inUse']_vars
    /\ \A c \in Callers :
          (C12_Suspended(c) /\ Len(agents) > 0)
              ~> (cpc[c] = "holding" \/ Len(agents) = 0)

\* a caller is suspended with the pool full, and a release() has made an agent
\* available to it
C12_Witness ==
    \E c \in Callers :
        /\ C12_Suspended(c)
        /\ Len(agents) > 0
        /\ \A d \in Callers \ {c} : cpc[d] \in {"idle", "holding"}

\* C13: with listeners that throw, the run is as it is with listeners that do
\* not throw: a task whose result is stored is completed, no task is left
\* running outside a wave in flight, and execute() rejects only with the run
\* failed by a task's own error.
C13_ListenersDoNotAffectRun ==
    /\ \A n \in DOMAIN results : tasks[n] = "completed"
    /\ pc = "thrown" => (state = "failed" /\ error \in WithStatus("failed"))
    /\ \A n \in WithStatus("running") :
          pc = "call" \/ promises[IndexOf(n)] = "pending"

\* C14: addTask(name, fn) of a name that is already registered leaves the
\* engine unchanged: the task's status and its dependency list stay as they are.
C14_DuplicateLeavesEngine ==
    [][\A name \in Registered : addTask(name) => UNCHANGED engineVars]_vars

\* C15: no dependency entry is recorded for a name that was never registered
\* with addTask.
C15_NoEntryForUnknownTask == DOMAIN dependencies \subseteq Registered

\* C18: the number of workers the pool holds, stats().total, never exceeds
\* maxSize.
C18_TotalBounded == stats.total <= maxSize

\* C16: release(worker) of a worker that is not in the in-use set leaves the
\* available collection and the in-use set unchanged.
C16_StrayReleaseChangesNothing ==
    [][\A agent \in 1..created :
          releaseNotAcquired(agent) => UNCHANGED <<agents, inUse>>]_vars

\* how many times agent a is in the available array
TimesAvailable(a) == Cardinality({i \in DOMAIN agents : agents[i] = a})

\* C17: every worker the pool has created is in exactly one of available and
\* in-use, and at most once in available.
C17_ExactlyOneSet ==
    \A a \in 1..created :
        TimesAvailable(a) + (IF a \in inUse THEN 1 ELSE 0) = 1

\* the stored results of n's declared dependencies, in declared order,
\* followed by the context execute() was called with
ExpectedArgs(n) ==
    Append([i \in DOMAIN dependencies[n] |-> results[dependencies[n][i]]], context)

\* the chain of the scenario: three tasks, each depending on the one added
\* before it
ChainDeclared ==
    /\ Len(taskOrder) = 3
    /\ dependencies = (taskOrder[1] :> << >>) @@ (taskOrder[2] :> <<taskOrder[1]>>)
                         @@ (taskOrder[3] :> <<taskOrder[2]>>)

RECURSIVE ScenarioValue(_)
\* what the scenario's work functions return: fetch returns {n: 1}, transform
\* returns input.n * 2, report returns "n=" + input
ScenarioValue(name) ==
    LET in == [i \in 1..(Len(args[name]) - 1) |-> ScenarioValue(args[name][i])]
    IN  CASE name = taskOrder[1] -> [n |-> 1]
          [] name = taskOrder[2] -> in[1].n * 2
          [] name = taskOrder[3] -> "n=" \o ToString(in[1])

\* C19: every called work function received the stored results of its
\* dependencies in declared order, then the context; for the chain
\* fetch -> transform -> report execute() returns
\* {fetch: {n: 1}, transform: 2, report: "n=2"}.
C19_InputsThenContext ==
    /\ \A n \in DOMAIN args :
          /\ Range(dependencies[n]) \subseteq DOMAIN results
          /\ args[n] = ExpectedArgs(n)
    /\ (ChainDeclared /\ pc = "returned") =>
          [n \in DOMAIN results |-> ScenarioValue(results[n])]
              = (taskOrder[1] :> [n |-> 1]) @@ (taskOrder[2] :> 2)
                  @@ (taskOrder[3] :> "n=2")

\* the chain has run to the end and every work function was called
C19_Witness == ChainDeclared /\ pc = "returned" /\ DOMAIN args = Registered

\* C20: a task named in the dependencies field of execute()'s argument starts
\* only when every task that field lists for it has completed.
C20_ArgumentDependenciesRespected ==
    [][\A t \in DOMAIN context \cap Registered :
          (tasks[t] = "pending" /\ tasks'[t] = "running") =>
              \A i \in DOMAIN context[t] : tasks[context[t][i]] = "completed"]_vars

\* C22: dequeue() on an empty queue returns no entry and leaves the queue
\* empty; the enqueue that follows puts its entry alone in the queue, and the
\* dequeue after it returns that entry.
C22_EmptyDequeue ==
    [][/\ (queue = << >> /\ nextId' = nextId) =>
             (queue' = << >> /\ lastDequeued'.id \notin 1..(nextId - 1))
       /\ (queue = << >> /\ nextId' # nextId) =>
             (Len(queue') = 1 /\ queue'[1].id = nextId)
       /\ (Len(queue) = 1 /\ queue' = << >>) => lastDequeued' = queue[1]]_vars

\* the last dequeue() found the queue empty, after entries had been dequeued
C22_Witness ==
    queue = << >> /\ lastDequeued = Undefined /\ dequeuedRun # << >>

\* C23: isEmpty() returns true exactly when size() returns 0.
C23_EmptyIffSizeZero == isEmpty <=> (size = 0)

\* the queue was filled and emptied again, and it was filled again
C23_Witness ==
    \/ isEmpty /\ nextId > 1 /\ lastDequeued # Undefined
    \/ size = 1 /\ nextId > 2 /\ lastDequeued # Undefined

\* C24: a call of peek(), size() or isEmpty() leaves the queue's array as it
\* is, and returns the first entry, the length, and whether the length is 0.
C24_ObserversPure ==
    [][observed'.op # "none" =>
          /\ UNCHANGED <<queue, nextId, lastDequeued, dequeuedRun, returned>>
          /\ observed'.op = "peek" =>
                observed'.entry = (IF queue = << >> THEN Undefined ELSE Head(queue))
          /\ observed'.op = "size" => observed'.count = Len(queue)
          /\ observed'.op = "isEmpty" => observed'.flag = (queue = << >>)]_vars

\* peek() was called on a queue of several entries
C24_Witness == observed.op = "peek" /\ Len(queue) >= 2

\* C25: dependsOn(name, depNames) on a registered task makes name's
\* dependencies exactly depNames, in the given order, and leaves every other
\* task's dependencies, every status and the result store unchanged.
C25_DependsOnReplaces ==
    [][\A task \in Registered, deps \in DepLists :
          dependsOn(task, deps) =>
              /\ dependencies'[task] = deps
              /\ DOMAIN dependencies' = DOMAIN dependencies \cup {task}
              /\ \A other \in DOMAIN dependencies \ {task} :
                    dependencies'[other] = dependencies[other]
              /\ UNCHANGED <<tasks, taskOrder, results, state>>]_vars

\* two registered tasks with different declared dependency lists, one of them
\* of two names
C25_Witness ==
    /\ Building
    /\ \E t, u \in Registered :
          /\ t # u
          /\ Len(dependencies[t]) = 2
          /\ dependencies[u] # << >>
          /\ dependencies[u] # dependencies[t]

\* C28: a worker is created only when none is available and fewer than
\* maxSize workers exist; a caller that finds an idle worker takes the last
\* one at once, without creating and without suspending.
C28_CreatesOnlyBelowMax ==
    [][/\ created' # created => (Len(agents) = 0 /\ stats.total < maxSize)
       /\ \A c \in Callers :
             (cpc[c] = "idle" /\ cpc'[c] # "idle" /\ Len(agents) > 0) =>
                 /\ created' = created
                 /\ cpc'[c] = "holding"
                 /\ held'[c] = {agents[Len(agents)]}]_vars

\* C21: a stored result is never removed or replaced, neither in the same run
\* nor by a later execute() call.
C21_ResultsAppendOnly ==
    [][\A n \in DOMAIN results :
          n \in DOMAIN results' /\ results'[n] = results[n]]_vars

\* C29: each task's work function is called at most once on one engine,
\* across all execute() calls.
C29_CalledAtMostOnce == \A n \in DOMAIN calls : calls[n] <= 1

\* C30: a second execute() call on an engine whose run before completed every
\* task returns or rejects.
C30_SecondExecuteTerminates ==
    (runs = 2 /\ pc = "loop" /\ WithStatus("completed") = Registered)
        ~> (pc \in {"returned", "thrown"})

\* C26: when execute() has rejected, the error it rejected with is the error
\* of the failed task that settled the wave, with or without a listener
\* subscribed to 'error'.
C26_RejectsWithTaskError ==
    pc = "thrown" => (rejection = error /\ rejection \in WithStatus("failed"))

\* how many of 'task:complete' and 'task:error' were emitted for task n
Settled(n) == emitted.taskComplete[n] + emitted.taskError[n]

C31_FrozenAfterFailure ==
    [][state = "failed" =>
          /\ tasks' = tasks
          /\ results' = results
          /\ emitted'.taskComplete = emitted.taskComplete
          /\ emitted'.taskError = emitted.taskError]_vars

\* C32: the ready set is computed only when no task of the run is in flight,
\* a task is started only as a member of the current wave while the wave is
\* being dispatched, and the engine waits only once every task of the wave
\* has been started.
C32_WaveBarrier ==
    /\ [][(pc = "loop" /\ pc' # "loop") =>
             (inProgress = {} /\ WithStatus("running") = {})]_vars
    /\ [][\A t \in Registered :
             (tasks[t] = "pending" /\ tasks'[t] = "running") =>
                 /\ pc = "map"
                 /\ t = runnable[idx]
                 /\ WithStatus("running") \subseteq Range(runnable)]_vars
    /\ [](pc \in {"await", "thrown"} =>
             \A i \in DOMAIN promises : promises[i] # "unstarted")

\* the second wave is being waited for with two of its tasks in flight
C32_Witness ==
    /\ pc = "await"
    /\ completed # {}
    /\ Cardinality(inProgress) = 2
    /\ \A i \in DOMAIN promises : promises[i] = "pending"

\* C33: during execute() a task's status only moves from pending to running
\* and from running to completed or to failed.
C33_StatusMovesForward ==
    [][\A t \in Registered :
          (pc # "idle" /\ tasks'[t] # tasks[t]) =>
              \/ tasks[t] = "pending" /\ tasks'[t] = "running"
              \/ tasks[t] = "running" /\ tasks'[t] \in {"completed", "failed"}]_vars

\* a run has left one task completed, one failed and one pending
C33_Witness ==
    /\ pc = "thrown"
    /\ WithStatus("completed") # {}
    /\ WithStatus("failed") # {}
    /\ WithStatus("pending") # {}
    /\ WithStatus("running") = {}

\* C34: in every reachable state of the engine the names that have an entry
\* in the result store are exactly the tasks whose status is completed.
C34_ResultsAreTheCompleted == DOMAIN results = WithStatus("completed")

\* C35: with callers that release only workers they hold, no worker is held
\* by two callers at a time, and a worker that is held is in use and not
\* among the available ones.
C35_OneHolder ==
    /\ \A c \in Callers, d \in Callers : c # d => held[c] \cap held[d] = {}
    /\ \A c \in Callers : held[c] \subseteq inUse /\ held[c] \cap Range(agents) = {}

\* every worker is held, one of them by a caller that had to wait for its
\* release, and a further caller is suspended
C35_Witness ==
    /\ created = maxSize
    /\ Cardinality(UNION {held[c] : c \in Callers}) = maxSize
    /\ held[maxSize + 1] # {}
    /\ \E c \in Callers : cpc[c] = "waiting"

\* C36: entries of equal priority leave the queue in the order they were
\* enqueued: among them the earlier enqueued stands before the later one in
\* the queue and in the run of dequeued entries, and none that is still
\* queued was enqueued before one that was dequeued.
C36_TiesFirstInFirstOut ==
    /\ \A i \in DOMAIN queue, j \in DOMAIN queue :
          (i < j /\ queue[i].priority = queue[j].priority) => queue[i].id < queue[j].id
    /\ \A i \in DOMAIN dequeuedRun, j \in DOMAIN dequeuedRun :
          (i < j /\ dequeuedRun[i].priority = dequeuedRun[j].priority) =>
              dequeuedRun[i].id < dequeuedRun[j].id
    /\ \A i \in DOMAIN dequeuedRun, j \in DOMAIN queue :
          dequeuedRun[i].priority = queue[j].priority => dequeuedRun[i].id < queue[j].id

\* two entries of one priority were dequeued, a third one is still queued
C36_Witness ==
    /\ Len(dequeuedRun) >= 2
    /\ dequeuedRun[1].priority = dequeuedRun[2].priority
    /\ \E j \in DOMAIN queue : queue[j].priority = dequeuedRun[1].priority

\* the number of entries that dequeue() returned so far
ReturnedTotal ==
    LET sum[i \in 0..MaxEnqueues] == IF i = 0 THEN 0 ELSE sum[i - 1] + returned[i]
    IN  sum[MaxEnqueues]

\* C37: size() is the number of enqueue calls less the number of dequeue
\* calls that returned an entry, and every entry enqueued is either in the
\* queue once or was returned by exactly one dequeue.
C37_Conservation ==
    /\ size = (nextId - 1) - ReturnedTotal
    /\ \A id \in 1..MaxEnqueues :
          returned[id] + Cardinality({i \in DOMAIN queue : queue[i].id = id})
             = IF id < nextId THEN 1 ELSE 0

\* a dequeue on the empty queue happened after entries were returned, and
\* entries were enqueued since
C37_Witness ==
    /\ ReturnedTotal = 2
    /\ size = 2
    /\ returned[1] = 1
    /\ returned[nextId - 1] = 0

\* C38: addTask(name, fn) never discards a dependency list already recorded
\* for name, whether dependsOn(name, D) was called before name was registered
\* or between two addTask calls for it.
C38_AddTaskKeepsDeclaration ==
    [][\A name \in DOMAIN dependencies :
          addTask(name) => dependencies'[name] = dependencies[name]]_vars
====
